---- MODULE Spec2Model ----
(***************************************************************************)
(* Verification model of the zero-copy frame pipeline of Drakulix/sunrise. *)
(*                                                                         *)
(*  - SpecExport: the wlr-export-dmabuf request handler                    *)
(*                (src/comp/src/export_dmabuf.rs)                          *)
(*  - SpecPool:   fd ownership of the consumer buffer pool and its buffer  *)
(*                meta (src/gst-plugin-wayland-display/src/buffer_pool)    *)
(*  - SpecChan:   the render command channel between waylanddisplaysrc     *)
(*                and its compositor thread                                *)
(*                (src/gst-plugin-wayland-display/src/waylandsrc)          *)
(***************************************************************************)
EXTENDS Integers, Sequences, FiniteSets, TLC

\* ------------------------------------------------------------------------
\* Bounds of the model
\* ------------------------------------------------------------------------
MaxPlanes == 3
MaxRequests == 2

MaxMems == 2
MaxBufs == 3
MaxHeld == 1

MaxStarts == 2
NumThreads == 2
MaxVideoInfo == 1

NumSlots == 3
MaxFrames == 4

MaxSize == 5

\* Width, in bits, of one word of the wire (u32) in the model; a u64 is two.
WordBits == 2

\* Destroy requests handled on the manager, and on frame objects.
MaxDestroys == 1

VARIABLES
    lastConv,       \* fourcc: the last pair of values converted, and the results
    destroys,       \* export: Destroy requests handled, per object kind
    requests,       \* export: one record per CaptureOutput request handled
    bufs,           \* pool: gst::Buffer slot -> [live, mem, dmabuf]
    memRef,         \* pool: refcount of each DmaBufMemory (0: not live)
    arcRef,         \* pool: strong count of each Dmabuf (0: not live)
    arcPlanes,      \* pool: number of planes (OwnedFd) of each Dmabuf
    held,           \* pool: Dmabuf clones held by Buffer commands
    opened,         \* pool: fds the allocator has opened
    closes,         \* pool: number of close() calls made on each fd
    srcState,       \* chan: WaylandDisplaySrc.state: 0 = None, g = Some(State g)
    started,        \* chan: number of compositor threads spawned so far
    mutex,          \* chan: holder of the state mutex (0: unlocked)
    tpc,            \* chan: position of each caller thread
    lastRet,        \* chan: the call that returned last, and what it returned
    ack,            \* chan: the ack rendezvous of each caller's create()
    recvd,          \* chan: the handler received that create()'s Buffer
    stopping,       \* chan: the State a stop() in progress took
    chan,           \* chan: commands sent and not yet received, per State
    txAlive,        \* chan: State.command_tx exists
    rxAlive,        \* chan: the Channel (in the event loop) exists
    cpc,            \* chan: position of each compositor thread
    should_quit,    \* chan: State.should_quit of each compositor
    joined,         \* chan: thread_handle.join() returned
    frameRx,        \* chan: buffer_tx is connected: it and its receiver exist
    hasPool,        \* chan: the base class holds a negotiated buffer pool
    firstCmd,       \* chan: kind of the first VideoInfo or Buffer sent, per State
    swSlots,        \* swap: slot -> [buffer, age, dmabuf] of State.swapchain
    frames,         \* swap: one record per create_frame() call of the loop
    compAlive,      \* swap: the compositor thread is running its loop
    poolState,      \* config: SmithayBufferPool.state
    lastCfg,        \* config: the last set_config() call and its result
    priorMax,       \* config: largest stride alignment a set_config() set so far
    lastBuf,        \* config: what the last alloc_buffer() call returned
    lastSel,        \* alloc: the allocator decide_allocation() last set up
    lastMem,        \* alloc: the last alloc() call of an allocator, its result
    lastReady,      \* wire: the last ready event and the times it encodes
    lastHdr,        \* wire: the last frame event's modifier, as sent and received
    lastObj         \* wire: the last object event's size, as measured and sent

exportVars == <<requests, destroys>>
poolVars == <<bufs, memRef, arcRef, arcPlanes, held, opened, closes>>
chanVars == <<srcState, started, mutex, tpc, lastRet, ack, recvd, stopping, chan,
              txAlive, rxAlive, cpc, should_quit, joined, frameRx, hasPool,
              firstCmd>>
vars == <<lastConv, destroys, requests, bufs, memRef, arcRef, arcPlanes, held, opened, closes,
          srcState, started, mutex, tpc, lastRet, ack, recvd, stopping, chan,
          txAlive, rxAlive, cpc, should_quit, joined, frameRx, hasPool,
          firstCmd, swSlots, frames, compAlive, poolState, lastCfg, priorMax,
          lastBuf, lastSel, lastMem, lastReady, lastHdr, lastObj>>

swapVars == <<swSlots, frames, compAlive>>
configVars == <<poolState, lastCfg, priorMax, lastBuf>>
allocVars == <<lastSel, lastMem>>
wireVars == <<lastReady, lastHdr, lastObj>>
convVars == <<lastConv>>

\* What the actions of one part leave alone: the variables of the others.
notExportVars == <<poolVars, chanVars, swapVars, configVars, allocVars, wireVars, convVars>>
notPoolVars == <<exportVars, chanVars, swapVars, configVars, allocVars, wireVars, convVars>>
notChanVars == <<exportVars, poolVars, swapVars, configVars, allocVars, wireVars, convVars>>
notSwapVars == <<exportVars, poolVars, chanVars, configVars, allocVars, wireVars, convVars>>
notConfigVars == <<exportVars, poolVars, chanVars, swapVars, allocVars, wireVars, convVars>>
notAllocVars == <<exportVars, poolVars, chanVars, swapVars, configVars, wireVars, convVars>>
notWireVars == <<exportVars, poolVars, chanVars, swapVars, configVars, allocVars, convVars>>
notConvVars == <<exportVars, poolVars, chanVars, swapVars, configVars, allocVars, wireVars>>

\* ========================================================================
\* Export protocol engine (src/comp/src/export_dmabuf.rs)
\* ========================================================================

\* enum CaptureError { Temporary, Permanent, Resizing }
CaptureError == {"Temporary", "Permanent", "Resizing"}

\* Result<Capture, CaptureError> of ExportDmabufHandler::capture_frame; an Ok
\* capture carries a Dmabuf with n planes (n >= 1), an Err carries the error.
CaptureOutcomes ==
    [ok : {TRUE}, n : 1..MaxPlanes, err : {"none"}]
        \cup [ok : {FALSE}, n : {0}, err : CaptureError]

\* Outcome of the size read of one plane: file.seek(SeekFrom::End(0)) and
\* file.rewind().
PlaneIo == {"ok", "seek_err", "rewind_err"}

\* Events of zwlr_export_dmabuf_frame_v1, as the handler emits them.
FrameEv(n) == [kind |-> "frame", num |-> n, fd |-> 0, reason |-> "none"]
ObjectEv(i, handle) == [kind |-> "object", num |-> i, fd |-> handle, reason |-> "none"]
ReadyEv == [kind |-> "ready", num |-> 0, fd |-> 0, reason |-> "none"]
CancelEv(r) == [kind |-> "cancel", num |-> 0, fd |-> 0, reason |-> r]

\* The match of the Err arm: CaptureError -> CancelReason.
CancelReasonOfSwapped(err) ==
    CASE err = "Temporary" -> "Temporary"
      [] err = "Permanent" -> "Temporary"
      [] err = "Resizing" -> "Resizing"

CancelReasonOf(err) ==
    CASE err = "Temporary" -> "Temporary"
      [] err = "Permanent" -> "Permanent"
      [] err = "Resizing" -> "Resizing"

\* The plane fds of the capture's Dmabuf: plane i (1-based here) holds the
\* raw handle i of that request's descriptor.
HandleOf(i) == i

\* One iteration of the plane loop, on handler state st =
\* [events, fdOpen, returned]:
\*   let mut file = File::from_raw_fd(handle)   -- file now owns the handle
\*   seek / rewind fails: cancel(Temporary); return  -- file dropped: close
\*   otherwise: handle = file.into_raw_fd(); frame.object(i, handle, ...)
SizeReadCancelReasonPermanent(io) == "Permanent"

SizeReadCancelReason(io) == "Temporary"

PlaneStep(i, io, st) ==
    IF io # "ok"
    THEN [st EXCEPT !.events = Append(@, CancelEv(SizeReadCancelReason(io))),
                    !.fdOpen[i] = FALSE,
                    !.returned = TRUE]
    ELSE [st EXCEPT !.events = Append(@, ObjectEv(i - 1, HandleOf(i)))]

\* for (i, (handle, (offset, stride))) in dmabuf.handles()...enumerate()
RECURSIVE PlaneLoop(_, _, _, _)
PlaneLoop(i, n, io, st) ==
    IF i > n \/ st.returned
    THEN st
    ELSE PlaneLoop(i + 1, n, io, PlaneStep(i, io[i], st))

\* frame.ready(..) after the loop, unless the loop returned from the handler.
FinishNoReady(st) == st

Finish(st) ==
    IF st.returned THEN st ELSE [st EXCEPT !.events = Append(@, ReadyEv)]

\* The Ok arm: frame.frame(.., num_planes), the plane loop, frame.ready(..).
OkArm(n, io) ==
    Finish(PlaneLoop(1, n, io,
                     [events |-> <<FrameEv(n)>>,
                      fdOpen |-> [p \in 1..n |-> TRUE],
                      returned |-> FALSE]))

\* The Err arm: frame.cancel(match err {..}).
ErrArm(err) ==
    [events |-> <<CancelEv(CancelReasonOf(err))>>,
     fdOpen |-> <<>>,
     returned |-> FALSE]

\* The size reads the handler made: those of the planes up to the first
\* failed one; the planes after it are never read.
ReadsMade(n, io) ==
    [p \in 1..n |-> IF \E q \in 1..(p - 1) : io[q] # "ok" THEN "unread" ELSE io[p]]

\* Request::CaptureOutput: the whole handler, for one capture outcome and one
\* outcome of every plane's size read. The record keeps the capture outcome
\* and the reads beside the events emitted and the state of the plane fds.
HandleCaptureOutput(cap, io) ==
    LET st == IF cap.ok THEN OkArm(cap.n, io) ELSE ErrArm(cap.err)
    IN  [capture |-> cap,
         io |-> ReadsMade(cap.n, io),
         events |-> st.events,
         fdOpen |-> st.fdOpen]

\* Request::Destroy => {} on the manager, and on a frame object: what the
\* handler makes of the requests handled so far (the capture_frame calls made
\* and the events emitted).
HandleManagerDestroy(reqs) == reqs

HandleFrameDestroyCancels(reqs) ==
    [reqs EXCEPT ![Len(reqs)].events = Append(@, CancelEv("Permanent"))]

HandleFrameDestroy(reqs) == reqs

InitExport ==
    /\ requests = <<>>
    /\ destroys = [manager |-> 0, frame |-> 0]

CaptureOutput ==
    /\ Len(requests) < MaxRequests
    /\ \E cap \in CaptureOutcomes, io \in [1..MaxPlanes -> PlaneIo] :
          requests' = Append(requests, HandleCaptureOutput(cap, io))
    /\ UNCHANGED destroys
    /\ UNCHANGED notExportVars

\* zwlr_export_dmabuf_manager_v1.destroy
ManagerDestroy ==
    /\ destroys.manager < MaxDestroys
    /\ requests' = HandleManagerDestroy(requests)
    /\ destroys' = [destroys EXCEPT !.manager = @ + 1]
    /\ UNCHANGED notExportVars

\* zwlr_export_dmabuf_frame_v1.destroy, on the frame object of a request
\* handled before.
FrameDestroy ==
    /\ Len(requests) > 0
    /\ destroys.frame < MaxDestroys
    /\ requests' = HandleFrameDestroy(requests)
    /\ destroys' = [destroys EXCEPT !.frame = @ + 1]
    /\ UNCHANGED notExportVars

NextExport ==
    \/ CaptureOutput
    \/ ManagerDestroy
    \/ FrameDestroy

\* ========================================================================
\* Consumer buffer pool: fd ownership
\* (src/gst-plugin-wayland-display/src/buffer_pool)
\* ========================================================================

\* Memory m is the DmaBufMemory the allocator made around fd m
\* (dmabuf_allocator.alloc(fd, size) takes the fd and closes it on free);
\* Dmabuf m is the descriptor alloc_buffer builds from that memory.
MemIds == 1..MaxMems
BufIds == 1..MaxBufs
NoBuf == [live |-> FALSE, mem |-> 0, dmabuf |-> 0]

InitPool ==
    /\ bufs = [b \in BufIds |-> NoBuf]
    /\ memRef = [m \in MemIds |-> 0]
    /\ arcRef = [m \in MemIds |-> 0]
    /\ arcPlanes = [m \in MemIds |-> 0]
    /\ held = [m \in MemIds |-> 0]
    /\ opened = {}
    /\ closes = [m \in MemIds |-> 0]

\* Drop of one strong reference to Dmabuf d (Arc<DmabufInternal>): the last
\* one drops every plane's OwnedFd, each of which closes its fd. Every plane
\* of Dmabuf d wraps fd d (OwnedFd::from_raw_fd(mem.fd())).
DropDmabuf(d, refs, cl) ==
    [arcRef |-> [refs EXCEPT ![d] = @ - 1],
     closes |-> IF refs[d] = 1 THEN [cl EXCEPT ![d] = @ + arcPlanes[d]] ELSE cl]

\* Unref of DmaBufMemory m: the last unref frees the memory, which closes
\* the fd it was allocated around.
UnrefMemory(m, refs, cl) ==
    [memRef |-> [refs EXCEPT ![m] = @ - 1],
     closes |-> IF refs[m] = 1 THEN [cl EXCEPT ![m] = @ + 1] ELSE cl]

\* SmithayBufferPool::alloc_buffer for a format of n planes in one memory:
\* allocator.alloc() opens fd m and wraps it in a memory; the plane loop
\* wraps mem.fd() in one OwnedFd per plane; SmithayBufferMeta::add moves the
\* built Dmabuf into the buffer's meta (custom_meta_init).
AllocBuffer ==
    \E b \in BufIds, m \in MemIds, n \in 1..MaxPlanes :
        /\ ~bufs[b].live
        /\ m \notin opened
        /\ \A k \in MemIds : k < m => k \in opened
        /\ opened' = opened \cup {m}
        /\ memRef' = [memRef EXCEPT ![m] = 1]
        /\ arcRef' = [arcRef EXCEPT ![m] = 1]
        /\ arcPlanes' = [arcPlanes EXCEPT ![m] = n]
        /\ bufs' = [bufs EXCEPT ![b] = [live |-> TRUE, mem |-> m, dmabuf |-> m]]
        /\ UNCHANGED <<held, closes>>
        /\ UNCHANGED notPoolVars

\* custom_meta_transform on a buffer copy: the copy shares the memory and
\* gets a meta holding meta.dmabuf.clone().
TransformMeta ==
    \E src \in BufIds, dst \in BufIds :
        /\ bufs[src].live
        /\ ~bufs[dst].live
        /\ bufs' = [bufs EXCEPT ![dst] = bufs[src]]
        /\ memRef' = [memRef EXCEPT ![bufs[src].mem] = @ + 1]
        /\ arcRef' = [arcRef EXCEPT ![bufs[src].dmabuf] = @ + 1]
        /\ UNCHANGED <<arcPlanes, held, opened, closes>>
        /\ UNCHANGED notPoolVars

\* create(): buffer_meta.get_dma_buffer().clone(), moved into
\* Command::Buffer.
CloneForCommand ==
    \E b \in BufIds :
        /\ bufs[b].live
        /\ held[bufs[b].dmabuf] < MaxHeld
        /\ held' = [held EXCEPT ![bufs[b].dmabuf] = @ + 1]
        /\ arcRef' = [arcRef EXCEPT ![bufs[b].dmabuf] = @ + 1]
        /\ UNCHANGED <<bufs, memRef, arcPlanes, opened, closes>>
        /\ UNCHANGED notPoolVars

\* The command, and the clone in it, is dropped by its receiver.
DropCommandClone ==
    \E d \in MemIds :
        /\ held[d] > 0
        /\ held' = [held EXCEPT ![d] = @ - 1]
        /\ LET r == DropDmabuf(d, arcRef, closes)
           IN  arcRef' = r.arcRef /\ closes' = r.closes
        /\ UNCHANGED <<bufs, memRef, arcPlanes, opened>>
        /\ UNCHANGED notPoolVars

\* The buffer is freed: custom_meta_free drops the meta's Dmabuf in place,
\* then the buffer's memory is unreffed.
FreeBuffer ==
    \E b \in BufIds :
        /\ bufs[b].live
        /\ LET r1 == DropDmabuf(bufs[b].dmabuf, arcRef, closes)
               r2 == UnrefMemory(bufs[b].mem, memRef, r1.closes)
           IN  /\ arcRef' = r1.arcRef
               /\ memRef' = r2.memRef
               /\ closes' = r2.closes
        /\ bufs' = [bufs EXCEPT ![b] = NoBuf]
        /\ UNCHANGED <<arcPlanes, held, opened>>
        /\ UNCHANGED notPoolVars

NextPool ==
    \/ AllocBuffer
    \/ TransformMeta
    \/ CloneForCommand
    \/ DropCommandClone
    \/ FreeBuffer

\* ========================================================================
\* Render command channel
\* (src/gst-plugin-wayland-display/src/waylandsrc/imp.rs, comp.rs)
\* ========================================================================

Threads == 1..NumThreads
Gens == 1..MaxStarts

\* enum Command { VideoInfo(VideoInfo), Buffer(Dmabuf, SyncSender<()>), Quit }
VideoInfoCmd == [kind |-> "VideoInfo", from |-> 0]
BufferCmd(t) == [kind |-> "Buffer", from |-> t]
QuitCmd == [kind |-> "Quit", from |-> 0]

\* A return: the caller, the call, its result, the State it acted on, whether
\* its send of a command failed, and the ack state a create() woke up on.
NoRet == [thread |-> 0, op |-> "none", val |-> "none", gen |-> 0,
          sendFailed |-> FALSE, ack |-> "none"]
Ret(t, o, v, g, f, a) ==
    [thread |-> t, op |-> o, val |-> v, gen |-> g, sendFailed |-> f, ack |-> a]

InitChan ==
    /\ srcState = 0
    /\ started = 0
    /\ mutex = 0
    /\ tpc = [t \in Threads |-> "idle"]
    /\ lastRet = NoRet
    /\ ack = [t \in Threads |-> "none"]
    /\ recvd = [t \in Threads |-> FALSE]
    /\ stopping = 0
    /\ chan = [g \in Gens |-> <<>>]
    /\ txAlive = [g \in Gens |-> FALSE]
    /\ rxAlive = [g \in Gens |-> FALSE]
    /\ cpc = [g \in Gens |-> "none"]
    /\ should_quit = [g \in Gens |-> FALSE]
    /\ joined = [g \in Gens |-> FALSE]
    /\ frameRx = [g \in Gens |-> FALSE]
    /\ hasPool = FALSE
    /\ firstCmd = [g \in Gens |-> "none"]

\* The senders of the Buffer commands in queue q.
BufferSenders(q) == {q[k].from : k \in {j \in 1..Len(q) : q[j].kind = "Buffer"}}

\* A Command::Buffer is dropped: its SyncSender<()> goes with it, unsignalled.
DropAcksKept(a, q) == a

DropAcks(a, q) ==
    [t \in Threads |-> IF t \in BufferSenders(q) THEN "dropped" ELSE a[t]]

NumVideoInfo(q) == Cardinality({k \in 1..Len(q) : q[k].kind = "VideoInfo"})

\* The first VideoInfo or Buffer command a channel carried, once kind is sent.
FirstCmdAfter(f, kind) == IF f = "none" THEN kind ELSE f

\* ---------------------------------------------------------------- start()
\* state.is_some(): return Ok. Otherwise channel(), thread::spawn(init),
\* *state = Some(State { thread_handle, command_tx }).
IsSomeNever(st) == FALSE

IsSome(st) == st # 0

Start(t) ==
    /\ tpc[t] = "idle"
    /\ mutex = 0
    /\ IF IsSome(srcState)
       THEN /\ lastRet' = Ret(t, "start", "Ok", srcState, FALSE, "none")
            /\ UNCHANGED <<srcState, started, txAlive, rxAlive, cpc, frameRx>>
       ELSE /\ started < MaxStarts
            /\ started' = started + 1
            /\ srcState' = started + 1
            /\ txAlive' = [txAlive EXCEPT ![started + 1] = TRUE]
            /\ rxAlive' = [rxAlive EXCEPT ![started + 1] = TRUE]
            /\ frameRx' = [frameRx EXCEPT ![started + 1] = TRUE]
            /\ cpc' = [cpc EXCEPT ![started + 1] = "top"]
            /\ lastRet' = Ret(t, "start", "Ok", started + 1, FALSE, "none")
    /\ UNCHANGED <<mutex, tpc, ack, recvd, stopping, chan, should_quit, joined>>
    /\ UNCHANGED <<hasPool, firstCmd>>
    /\ UNCHANGED notChanVars

\* ------------------------------------------------------ decide_allocation()
\* let _ = state.lock().unwrap().as_mut().unwrap()
\*             .command_tx.send(Command::VideoInfo(video_info)); Ok(())
\* The send fails when the Channel has been dropped; its result is discarded.
\* Before it, the pool is configured and put in the query
\* (set_nth_allocation_pool / add_allocation_pool): on Ok the base class keeps
\* that pool as the source's buffer pool.
\* The base class negotiates (and so calls this) on a started source only.
DecideAllocation(t) ==
    /\ tpc[t] = "idle"
    /\ mutex = 0
    /\ srcState # 0
    /\ IF rxAlive[srcState]
       THEN /\ NumVideoInfo(chan[srcState]) < MaxVideoInfo
            /\ chan' = [chan EXCEPT ![srcState] = Append(@, VideoInfoCmd)]
            /\ firstCmd' = [firstCmd EXCEPT ![srcState] =
                                FirstCmdAfter(@, "VideoInfo")]
            /\ lastRet' = Ret(t, "decide_allocation", "Ok", srcState, FALSE, "none")
       ELSE /\ chan' = chan
            /\ firstCmd' = firstCmd
            /\ lastRet' = Ret(t, "decide_allocation", "Ok", srcState, TRUE, "none")
    /\ hasPool' = TRUE
    /\ UNCHANGED <<srcState, started, mutex, tpc, ack, recvd, stopping, txAlive,
                   rxAlive, cpc, should_quit, joined, frameRx>>
    /\ UNCHANGED notChanVars

\* ---------------------------------------------------------------- create()
\* The state guard is held from the lock to the return.
MutexAfterSendReleased(t) == 0

MutexAfterSend(t) == t

\* let Some(pool) = self.obj().buffer_pool() else { unreachable!() }
PoolPresentAlways(p) == TRUE

PoolPresent(p) == p

\* let Some(state) = state_guard.as_mut() else { return Err(FlowError::Eos) }
CreateWithoutStateFails(t) == "Error"

CreateWithoutState(t) == "Eos"

\* Lock; state None: Eos. No buffer pool: unreachable!() panics. Otherwise
\* send Command::Buffer(dmabuf, buffer_tx): a failed send returns Eos, a sent
\* command is waited for.
CreateSend(t) ==
    /\ tpc[t] = "idle"
    /\ mutex = 0
    /\ IF srcState = 0
       THEN /\ lastRet' = Ret(t, "create", CreateWithoutState(t), 0, FALSE, "none")
            /\ UNCHANGED <<mutex, tpc, ack, recvd, chan, firstCmd>>
       ELSE IF ~PoolPresent(hasPool)
       THEN /\ lastRet' = Ret(t, "create", "Panic", srcState, FALSE, "none")
            /\ UNCHANGED <<mutex, tpc, ack, recvd, chan, firstCmd>>
       ELSE IF ~rxAlive[srcState]
       THEN /\ lastRet' = Ret(t, "create", "Eos", srcState, TRUE, "none")
            /\ UNCHANGED <<mutex, tpc, ack, recvd, chan, firstCmd>>
       ELSE /\ chan' = [chan EXCEPT ![srcState] = Append(@, BufferCmd(t))]
            /\ firstCmd' = [firstCmd EXCEPT ![srcState] =
                                FirstCmdAfter(@, "Buffer")]
            /\ ack' = [ack EXCEPT ![t] = "pending"]
            /\ recvd' = [recvd EXCEPT ![t] = FALSE]
            /\ tpc' = [tpc EXCEPT ![t] = "create_wait"]
            /\ mutex' = MutexAfterSend(t)
            /\ lastRet' = lastRet
    /\ UNCHANGED <<srcState, started, stopping, txAlive, rxAlive, cpc,
                   should_quit, joined, frameRx, hasPool>>
    /\ UNCHANGED notChanVars

\* pool.acquire_buffer(..)? fails: the flow error is returned before any send.
CreateAcquireFails(t) ==
    /\ tpc[t] = "idle"
    /\ mutex = 0
    /\ srcState # 0
    /\ PoolPresent(hasPool)
    /\ lastRet' = Ret(t, "create", "Error", srcState, FALSE, "none")
    /\ UNCHANGED <<srcState, started, mutex, tpc, ack, recvd, stopping, chan,
                   txAlive, rxAlive, cpc, should_quit, joined, frameRx>>
    /\ UNCHANGED <<hasPool, firstCmd>>
    /\ UNCHANGED notChanVars

\* buffer_rx.recv(): Ok(()) when the ack was signalled, Err when its sender
\* was dropped; Err returns FlowError::Error, Ok returns the buffer.
RecvResultAlwaysOk(a) == "Ok"

RecvResult(a) == IF a = "signalled" THEN "Ok" ELSE "Error"

CreateRecv(t) ==
    /\ tpc[t] = "create_wait"
    /\ ack[t] \in {"signalled", "dropped"}
    /\ lastRet' = Ret(t, "create", RecvResult(ack[t]), srcState, FALSE, ack[t])
    /\ tpc' = [tpc EXCEPT ![t] = "idle"]
    /\ mutex' = 0
    /\ ack' = [ack EXCEPT ![t] = "none"]
    /\ recvd' = [recvd EXCEPT ![t] = FALSE]
    /\ UNCHANGED <<srcState, started, stopping, chan, txAlive,
                   rxAlive, cpc, should_quit, joined, frameRx>>
    /\ UNCHANGED <<hasPool, firstCmd>>
    /\ UNCHANGED notChanVars

\* ----------------------------------------------------------------- stop()
\* Lock; state.take(). Some(state): send Quit; a failed send returns Ok at
\* once (state, with its thread handle and sender, is dropped); otherwise
\* drop(command_tx) and thread_handle.join().
\* The base class that calls stop() gives up the source's buffer pool when it
\* stops the source, and negotiates anew (decide_allocation) after a start().
StopSend(t) ==
    /\ tpc[t] = "idle"
    /\ mutex = 0
    /\ hasPool' = FALSE
    /\ firstCmd' = firstCmd
    /\ IF srcState = 0
       THEN /\ lastRet' = Ret(t, "stop", "Ok", 0, FALSE, "none")
            /\ UNCHANGED <<srcState, mutex, tpc, stopping, chan, txAlive>>
       ELSE IF ~rxAlive[srcState]
       THEN /\ lastRet' = Ret(t, "stop", "Ok", srcState, TRUE, "none")
            /\ srcState' = 0
            /\ txAlive' = [txAlive EXCEPT ![srcState] = FALSE]
            /\ UNCHANGED <<mutex, tpc, stopping, chan>>
       ELSE /\ chan' = [chan EXCEPT ![srcState] = Append(@, QuitCmd)]
            /\ srcState' = 0
            /\ txAlive' = [txAlive EXCEPT ![srcState] = FALSE]
            /\ stopping' = srcState
            /\ tpc' = [tpc EXCEPT ![t] = "stop_join"]
            /\ mutex' = t
            /\ lastRet' = lastRet
    /\ UNCHANGED <<started, ack, recvd, rxAlive, cpc, should_quit, joined, frameRx>>
    /\ UNCHANGED notChanVars

\* thread_handle.join() returns once the compositor thread has terminated.
StopJoin(t) ==
    /\ tpc[t] = "stop_join"
    /\ cpc[stopping] = "dead"
    /\ joined' = [joined EXCEPT ![stopping] = TRUE]
    /\ lastRet' = Ret(t, "stop", "Ok", stopping, FALSE, "none")
    /\ stopping' = 0
    /\ tpc' = [tpc EXCEPT ![t] = "idle"]
    /\ mutex' = 0
    /\ UNCHANGED <<srcState, started, ack, recvd, chan, txAlive, rxAlive, cpc,
                   should_quit, frameRx>>
    /\ UNCHANGED <<hasPool, firstCmd>>
    /\ UNCHANGED notChanVars

\* ------------------------------------------------- comp::init, the thread
\* The thread leaves init (return or unwinding): the event loop, and the
\* Channel in it, is dropped, and every command still queued with it; so is
\* buffer_tx.
LeaveLoop(g) ==
    /\ cpc' = [cpc EXCEPT ![g] = "exiting"]
    /\ rxAlive' = [rxAlive EXCEPT ![g] = FALSE]
    /\ frameRx' = [frameRx EXCEPT ![g] = FALSE]
    /\ ack' = DropAcks(ack, chan[g])
    /\ chan' = [chan EXCEPT ![g] = <<>>]

\* while !data.state.should_quit
LoopContinuesAlways(sq) == TRUE

LoopContinues(sq) == ~sq

CompLoopTop(g) ==
    /\ cpc[g] = "top"
    /\ IF LoopContinues(should_quit[g])
       THEN /\ cpc' = [cpc EXCEPT ![g] = "dispatch"]
            /\ UNCHANGED <<rxAlive, ack, chan, frameRx>>
       ELSE LeaveLoop(g)
    /\ UNCHANGED <<srcState, started, mutex, tpc, lastRet, recvd, stopping, txAlive,
                   should_quit, joined>>
    /\ UNCHANGED <<hasPool, firstCmd>>
    /\ UNCHANGED notChanVars

\* The command_src callback, for the commands queue q holds:
\*   match event { Event::Msg(Command::Quit) | Event::Closed =>
\*                     data.state.should_quit = true }
\* Event::Closed follows the last message once every sender is gone. No other
\* command has an arm: a Buffer or VideoInfo command is dropped as received.
HandlerQuits(q, senderAlive, sq) ==
    sq \/ (\E k \in 1..Len(q) : q[k].kind = "Quit") \/ ~senderAlive

\* event_loop.dispatch(Duration::ZERO, &mut data): every queued command is
\* received and handed to the callback.
CompDispatch(g) ==
    /\ cpc[g] = "dispatch"
    /\ should_quit' = [should_quit EXCEPT ![g] =
                          HandlerQuits(chan[g], txAlive[g], should_quit[g])]
    /\ recvd' = [t \in Threads |->
                    IF t \in BufferSenders(chan[g]) THEN TRUE ELSE recvd[t]]
    /\ ack' = DropAcks(ack, chan[g])
    /\ chan' = [chan EXCEPT ![g] = <<>>]
    /\ cpc' = [cpc EXCEPT ![g] = "frame"]
    /\ UNCHANGED <<srcState, started, mutex, tpc, lastRet, stopping, txAlive,
                   rxAlive, joined, frameRx>>
    /\ UNCHANGED <<hasPool, firstCmd>>
    /\ UNCHANGED notChanVars

\* data.state.create_frame() returned Ok: the frame is copied out.
CompCreateFrame(g) ==
    /\ cpc[g] = "frame"
    /\ cpc' = [cpc EXCEPT ![g] = "send"]
    /\ UNCHANGED <<srcState, started, mutex, tpc, lastRet, ack, recvd, stopping,
                   chan, txAlive, rxAlive, should_quit, joined, frameRx>>
    /\ UNCHANGED <<hasPool, firstCmd>>
    /\ UNCHANGED notChanVars

\* create_frame() returned Err: .expect("Failed to render buffer") panics.
CompRenderPanic(g) ==
    /\ cpc[g] = "frame"
    /\ LeaveLoop(g)
    /\ UNCHANGED <<srcState, started, mutex, tpc, lastRet, recvd, stopping, txAlive,
                   should_quit, joined>>
    /\ UNCHANGED <<hasPool, firstCmd>>
    /\ UNCHANGED notChanVars

\* buffer_tx.send(gst_buffer): taken by the receiver, or Err (break) when the
\* receiver is gone.
CompSendFrame(g) ==
    /\ cpc[g] = "send"
    /\ IF frameRx[g]
       THEN /\ cpc' = [cpc EXCEPT ![g] = "top"]
            /\ UNCHANGED <<rxAlive, ack, chan, frameRx>>
       ELSE LeaveLoop(g)
    /\ UNCHANGED <<srcState, started, mutex, tpc, lastRet, recvd, stopping, txAlive,
                   should_quit, joined>>
    /\ UNCHANGED <<hasPool, firstCmd>>
    /\ UNCHANGED notChanVars

\* The receiving end of buffer_tx is dropped by its owner.
FrameReceiverDropped(g) ==
    /\ frameRx[g]
    /\ frameRx' = [frameRx EXCEPT ![g] = FALSE]
    /\ UNCHANGED <<srcState, started, mutex, tpc, lastRet, ack, recvd, stopping,
                   chan, txAlive, rxAlive, cpc, should_quit, joined>>
    /\ UNCHANGED <<hasPool, firstCmd>>
    /\ UNCHANGED notChanVars

\* The remaining locals of init are dropped and the thread terminates.
CompTerminate(g) ==
    /\ cpc[g] = "exiting"
    /\ cpc' = [cpc EXCEPT ![g] = "dead"]
    /\ UNCHANGED <<srcState, started, mutex, tpc, lastRet, ack, recvd, stopping,
                   chan, txAlive, rxAlive, should_quit, joined, frameRx>>
    /\ UNCHANGED <<hasPool, firstCmd>>
    /\ UNCHANGED notChanVars

\* The source is dropped while started, without a stop(): its State goes with
\* it, command_tx is dropped with no Quit sent and the thread handle is
\* dropped unjoined. The base class's pool goes with the source; calls made
\* afterwards are calls on a source made anew.
SourceDropped ==
    /\ srcState # 0
    /\ mutex = 0
    /\ \A t \in Threads : tpc[t] = "idle"
    /\ txAlive' = [txAlive EXCEPT ![srcState] = FALSE]
    /\ srcState' = 0
    /\ hasPool' = FALSE
    /\ UNCHANGED <<started, mutex, tpc, lastRet, ack, recvd, stopping, chan,
                   rxAlive, cpc, should_quit, joined, frameRx, firstCmd>>
    /\ UNCHANGED notChanVars

NextChan ==
    \/ \E t \in Threads : Start(t)
    \/ \E t \in Threads : DecideAllocation(t)
    \/ \E t \in Threads : CreateSend(t)
    \/ \E t \in Threads : CreateAcquireFails(t)
    \/ \E t \in Threads : CreateRecv(t)
    \/ \E t \in Threads : StopSend(t)
    \/ \E t \in Threads : StopJoin(t)
    \/ \E g \in Gens : CompLoopTop(g)
    \/ \E g \in Gens : CompDispatch(g)
    \/ \E g \in Gens : CompCreateFrame(g)
    \/ \E g \in Gens : CompRenderPanic(g)
    \/ \E g \in Gens : CompSendFrame(g)
    \/ \E g \in Gens : FrameReceiverDropped(g)
    \/ \E g \in Gens : CompTerminate(g)

\* ========================================================================
\* Render target swapchain of the compositor thread
\* (src/gst-plugin-wayland-display/src/waylandsrc/comp.rs)
\* ========================================================================

SlotIds == 1..NumSlots

\* Swapchain::new(gbm_device, w, h, Fourcc::Xrgb8888, modifiers): no slot has
\* a buffer yet; an unrendered buffer has age 0; no slot is handed out.
InitSwap ==
    /\ swSlots = [s \in SlotIds |-> [buffer |-> FALSE, age |-> 0, dmabuf |-> FALSE,
                                     acquired |-> FALSE]]
    /\ frames = <<>>
    /\ compAlive = TRUE

\* What one call of create_frame() can meet, in the order of its steps:
\*   elements_err  MemoryRenderBufferRenderElement::from_buffer(..)?  fails
\*   alloc_err     swapchain.acquire() is Err: the slot's buffer allocation
\*   export_err    offscreen.export() is Err
\*   bind_err, render_err, unbind_err   renderer.bind / render_output / unbind
RenderOutcomes ==
    {"ok", "elements_err", "alloc_err", "export_err", "bind_err", "render_err",
     "unbind_err"}

\* How the call ends: .acquire().unwrap() and .export().unwrap() panic inside
\* create_frame; the `?` failures return Err, on which the loop's
\* .expect("Failed to render buffer") panics.
FrameResult(o) ==
    IF o = "ok" THEN "Ok"
    ELSE IF o \in {"alloc_err", "export_err", "no_free"} THEN "Panic"
    ELSE "Err"

\* The swapchain after the acquire of slot s: a slot without a buffer gets one
\* (age 0) unless the allocation fails; the Dmabuf exported from it is cached
\* in the slot's userdata on first use.
AfterAcquire(sl, s, o) ==
    IF o \in {"elements_err", "alloc_err"} THEN sl
    ELSE IF o = "export_err" THEN [sl EXCEPT ![s].buffer = TRUE, ![s].acquired = TRUE]
    ELSE [sl EXCEPT ![s].buffer = TRUE, ![s].dmabuf = TRUE, ![s].acquired = TRUE]

\* The slots handed out and not yet dropped.
SlotsHeld(sl) == Cardinality({s \in SlotIds : sl[s].acquired})

\* `offscreen`, the Slot acquire() handed out, is a local of create_frame():
\* it is dropped, and the slot free again, when the call is left.
ReleaseSlotNever(sl, s) == sl

ReleaseSlot(sl, s) == [sl EXCEPT ![s].acquired = FALSE]

\* The swapchain after the render into slot s: create_frame() returns the
\* Dmabuf and drops the slot; nothing reports the render to the swapchain.
AfterRender(sl, s, o) == sl

\* One iteration of the loop of init reaches create_frame(). acquire() hands
\* out a slot that is not handed out already, or None when there is none, on
\* which .expect("Failed to acquire buffer") panics. The age create_frame
\* reads is the slot's. Any failure ends the thread.
CreateFrame ==
    /\ compAlive
    /\ Len(frames) < MaxFrames
    /\ IF \A s \in SlotIds : swSlots[s].acquired
       THEN \E o \in {"elements_err", "no_free"} :
              /\ swSlots' = swSlots
              /\ frames' = Append(frames,
                     [slot |-> 0, age |-> 0, fresh |-> FALSE, outcome |-> o,
                      res |-> FrameResult(o), inUse |-> SlotsHeld(swSlots)])
              /\ compAlive' = FALSE
       ELSE \E s \in SlotIds, o \in RenderOutcomes :
              /\ ~swSlots[s].acquired
              /\ (o = "alloc_err") => ~swSlots[s].buffer
              /\ (o = "export_err") => ~swSlots[s].dmabuf
              /\ swSlots' = ReleaseSlot(
                                AfterRender(AfterAcquire(swSlots, s, o), s, o), s)
              /\ frames' = Append(frames,
                     [slot |-> IF o = "elements_err" THEN 0 ELSE s,
                      age |-> IF o \in {"elements_err", "alloc_err"}
                              THEN 0 ELSE swSlots[s].age,
                      fresh |-> (o # "elements_err") /\ ~swSlots[s].buffer,
                      outcome |-> o,
                      res |-> FrameResult(o),
                      inUse |-> SlotsHeld(AfterAcquire(swSlots, s, o))])
              /\ compAlive' = (FrameResult(o) = "Ok")
    /\ UNCHANGED notSwapVars

NextSwap == CreateFrame

\* ========================================================================
\* Consumer buffer pool: configuration and buffer content
\* (src/gst-plugin-wayland-display/src/buffer_pool/imp.rs, src/.../utils.rs)
\* ========================================================================

\* gst_video_format_to_drm_fourcc: the eight packed RGB formats, else None.
gst_video_format_to_drm_fourcc(format) ==
    CASE format = "Abgr" -> "Rgba8888"
      [] format = "Argb" -> "Bgra8888"
      [] format = "Bgra" -> "Argb8888"
      [] format = "Bgrx" -> "Xrgb8888"
      [] format = "Rgba" -> "Abgr8888"
      [] format = "Rgbx" -> "Xbgr8888"
      [] format = "Xbgr" -> "Rgbx8888"
      [] format = "Xrgb" -> "Bgrx8888"
      [] OTHER -> "None"

\* gst_video_format_from_drm_fourcc
gst_video_format_from_drm_fourcc_same_name(fourcc) ==
    CASE fourcc = "Abgr8888" -> "Abgr"
      [] fourcc = "Argb8888" -> "Argb"
      [] fourcc = "Bgra8888" -> "Bgra"
      [] fourcc = "Bgrx8888" -> "Bgrx"
      [] fourcc = "Rgba8888" -> "Rgba"
      [] fourcc = "Rgbx8888" -> "Rgbx"
      [] fourcc = "Xbgr8888" -> "Xbgr"
      [] fourcc = "Xrgb8888" -> "Xrgb"
      [] OTHER -> "None"

gst_video_format_from_drm_fourcc(fourcc) ==
    CASE fourcc = "Abgr8888" -> "Rgba"
      [] fourcc = "Argb8888" -> "Bgra"
      [] fourcc = "Bgra8888" -> "Argb"
      [] fourcc = "Bgrx8888" -> "Xrgb"
      [] fourcc = "Rgba8888" -> "Abgr"
      [] fourcc = "Rgbx8888" -> "Xbgr"
      [] fourcc = "Xbgr8888" -> "Rgbx"
      [] fourcc = "Xrgb8888" -> "Bgrx"
      [] OTHER -> "None"

\* Bitwise or / and of two naturals (max_align |= stride_align).
RECURSIVE BitOr(_, _)
BitOr(a, b) ==
    IF a = 0 THEN b
    ELSE IF b = 0 THEN a
    ELSE (IF a % 2 = 1 \/ b % 2 = 1 THEN 1 ELSE 0) + 2 * BitOr(a \div 2, b \div 2)

RECURSIVE BitAnd(_, _)
BitAnd(a, b) ==
    IF a = 0 \/ b = 0 THEN 0
    ELSE (IF a % 2 = 1 /\ b % 2 = 1 THEN 1 ELSE 0) + 2 * BitAnd(a \div 2, b \div 2)

\* The caps a config can carry: format, width, height of the video.
VideoCaps ==
    {[format |-> "Bgrx", width |-> 3, height |-> 2],
     [format |-> "Nv12", width |-> 2, height |-> 2]}

\* Alignments are masks (2^n - 1), as in AllocationParams and VideoAlignment.
AlignValues == {0, 3, 7}
\* The planes a format of the model can have (stride_align has an entry each).
AlignPlanes == 1..2
Allocators == {"gbm", "dmaheap", "system"}

\* video_info.n_planes()
NPlanes(format) == IF format = "Nv12" THEN 2 ELSE 1

\* VideoInfo::from_caps(&caps): no plane is aligned beyond its natural stride.
VideoInfoFromCaps(caps) ==
    [set |-> TRUE, format |-> caps.format, width |-> caps.width,
     height |-> caps.height, strideAlign |-> [p \in AlignPlanes |-> 0]]

\* The least stride of at least x bytes that the mask divides.
AlignUp(x, mask) == ((x + mask) \div (mask + 1)) * (mask + 1)

\* video_info.stride()[plane], video_info.offset()[plane], video_info.size()
StrideOf(vi, p) ==
    AlignUp(IF vi.format = "Nv12" THEN AlignUp(vi.width, 3) ELSE 4 * vi.width,
            vi.strideAlign[p])

OffsetOf(vi, p) == IF p = 1 THEN 0 ELSE StrideOf(vi, 1) * vi.height

SizeOf(vi) ==
    IF vi.format = "Nv12"
    THEN StrideOf(vi, 1) * vi.height + StrideOf(vi, 2) * ((vi.height + 1) \div 2)
    ELSE StrideOf(vi, 1) * vi.height

\* ------------------------------------------------------------ set_config()
NoVideoInfo ==
    [set |-> FALSE, format |-> "None", width |-> 0, height |-> 0,
     strideAlign |-> [p \in AlignPlanes |-> 0]]

\* State::default()
InitConfig ==
    /\ poolState = [video_info |-> NoVideoInfo, allocator |-> "None",
                    align |-> 0, add_video_meta |-> FALSE]
    /\ lastCfg = [called |-> FALSE, ok |-> FALSE, request |-> FALSE,
                  applied |-> FALSE, reqMax |-> 0]
    /\ priorMax = 0
    /\ lastBuf = [res |-> "none", met |-> "none", dma |-> FALSE, metas |-> <<>>,
                  tag |-> FALSE, vmeta |-> FALSE]

\* A config as set_config() reads it:
\*   params     config.params() is Some
\*   capsKind   the caps in it: none, caps that are not video caps, video caps
\*   alloc      config.allocator(): unset, Some((None, ..)), or an allocator
\*   align      params.align() of the allocation params
\*   meta, alignOpt   has_option(VIDEO_META), has_option(VIDEO_ALIGNMENT)
\*   hasValign, valign   config.video_alignment() and its stride_align
\*   fail       what rejects it: video_info.align(), parent_set_config, nothing
DefaultCaps == [format |-> "Bgrx", width |-> 3, height |-> 2]
NoValign == [p \in AlignPlanes |-> 0]

BrokenConfigs ==
    [params : {FALSE}, capsKind : {"video"}, caps : {DefaultCaps},
     alloc : {"gbm"}, align : {0}, meta : {FALSE}, alignOpt : {FALSE},
     hasValign : {FALSE}, valign : {NoValign}, fail : {"none"}]
    \cup
    [params : {TRUE}, capsKind : {"none", "other"}, caps : {DefaultCaps},
     alloc : {"gbm"}, align : {0}, meta : {FALSE}, alignOpt : {FALSE},
     hasValign : {FALSE}, valign : {NoValign}, fail : {"none"}]
    \cup
    [params : {TRUE}, capsKind : {"video"}, caps : {DefaultCaps},
     alloc : {"unset", "null"}, align : {0}, meta : {FALSE}, alignOpt : {FALSE},
     hasValign : {FALSE}, valign : {NoValign}, fail : {"none"}]

\* A video alignment is read only from a config with the alignment option,
\* and video_info.align() is reached only when the alignment applies.
FullConfigs ==
    [params : {TRUE}, capsKind : {"video"}, caps : VideoCaps,
     alloc : Allocators, align : AlignValues, meta : BOOLEAN,
     alignOpt : BOOLEAN, hasValign : {FALSE}, valign : {NoValign},
     fail : {"none", "parent"}]
    \cup
    [params : {TRUE}, capsKind : {"video"}, caps : VideoCaps,
     alloc : Allocators, align : AlignValues, meta : {FALSE},
     alignOpt : {TRUE}, hasValign : {TRUE},
     valign : [AlignPlanes -> AlignValues], fail : {"none", "parent"}]
    \cup
    [params : {TRUE}, capsKind : {"video"}, caps : VideoCaps,
     alloc : Allocators, align : AlignValues, meta : {TRUE},
     alignOpt : {TRUE}, hasValign : {TRUE},
     valign : [AlignPlanes -> AlignValues], fail : {"none", "align", "parent"}]

\* need_alignment && guard.add_video_meta, and video_alignment() is Some
AlignmentAppliesWithoutMeta(c) == c.alignOpt /\ c.hasValign

AlignmentApplies(c) == c.alignOpt /\ c.meta /\ c.hasValign

\* max_align |= stride_align[plane]
OrAlignDropped(m, a) == BitAnd(m, a)

OrAlign(m, a) == BitOr(m, a)

\* let mut max_align = align; for plane in 0..n_planes { max_align |= .. }
RECURSIVE MaxAlign(_, _, _)
MaxAlign(align, valign, n) ==
    IF n = 0 THEN align ELSE OrAlign(MaxAlign(align, valign, n - 1), valign[n])

\* stride_align[plane] = max_align for the planes of the format, 0 beyond.
StrideAlignFor(max_align, n) ==
    [p \in AlignPlanes |-> IF p <= n THEN max_align ELSE 0]

\* if align < max_align { allocation_params = .. max_align .. }
FixedParamsAlignKept(align, max_align) == align

FixedParamsAlign(align, max_align) ==
    IF align < max_align THEN max_align ELSE align

\* The early returns before the state is locked (lines 160-203).
RejectedEarly(c) ==
    ~c.params \/ c.capsKind # "video" \/ c.alloc \in {"unset", "null"}

\* set_config(config) on pool state st: the state it leaves, what it
\* returns, and the allocation params alignment, the video alignment and the
\* allocator the config has afterwards.
SetConfigResult(st, c) ==
    IF RejectedEarly(c)
    THEN [ok |-> FALSE, state |-> st, outAlign |-> c.align,
          outValign |-> c.valign, outAlloc |-> c.alloc]
    ELSE
      LET n == NPlanes(c.caps.format)
          st1 == [st EXCEPT !.add_video_meta = c.meta]
          max_align == MaxAlign(c.align, c.valign, n)
      IN  IF AlignmentApplies(c) /\ c.fail = "align"
          THEN [ok |-> FALSE, state |-> st1, outAlign |-> c.align,
                outValign |-> c.valign, outAlloc |-> c.alloc]
          ELSE
            LET vi == IF AlignmentApplies(c)
                      THEN [VideoInfoFromCaps(c.caps) EXCEPT
                               !.strideAlign = StrideAlignFor(max_align, n)]
                      ELSE VideoInfoFromCaps(c.caps)
                al == IF AlignmentApplies(c)
                      THEN FixedParamsAlign(c.align, max_align)
                      ELSE c.align
            IN  [ok |-> c.fail # "parent",
                 state |-> [video_info |-> vi,
                            allocator |-> c.alloc,
                            align |-> al,
                            add_video_meta |-> c.meta],
                 outAlign |-> al,
                 outValign |-> IF AlignmentApplies(c)
                               THEN StrideAlignFor(max_align, n) ELSE c.valign,
                 outAlloc |-> c.alloc]

\* The largest of the alignments a config asks for: the allocation params'
\* and the stride alignment of every plane of the format.
RECURSIVE NumMax(_, _, _)
NumMax(align, valign, n) ==
    IF n = 0 THEN align
    ELSE LET m == NumMax(align, valign, n - 1)
         IN  IF valign[n] > m THEN valign[n] ELSE m

RequestedMax(c) ==
    IF c.alignOpt /\ c.hasValign
    THEN NumMax(c.align, c.valign, NPlanes(c.caps.format)) ELSE 0

\* The least stride alignment among the planes of the stored video info.
EffectiveAlign(vi) ==
    IF NPlanes(vi.format) = 2 /\ vi.strideAlign[2] < vi.strideAlign[1]
    THEN vi.strideAlign[2] ELSE vi.strideAlign[1]

SetConfig ==
    \E c \in BrokenConfigs \cup FullConfigs :
        LET r == SetConfigResult(poolState, c)
        IN  /\ poolState' = r.state
            /\ lastCfg' = [called |-> TRUE, ok |-> r.ok,
                           request |-> ~RejectedEarly(c) /\ c.alignOpt /\ c.hasValign,
                           applied |-> ~RejectedEarly(c) /\ AlignmentApplies(c),
                           reqMax |-> IF RejectedEarly(c) THEN 0 ELSE RequestedMax(c)]
            /\ priorMax' = IF r.ok /\ EffectiveAlign(r.state.video_info) > priorMax
                           THEN EffectiveAlign(r.state.video_info) ELSE priorMax
            /\ lastBuf' = [res |-> "none", met |-> "none", dma |-> FALSE,
                           metas |-> <<>>, tag |-> FALSE, vmeta |-> FALSE]
            /\ UNCHANGED notConfigVars
\* (lastBuf looks at the buffers of the configuration in force only.)

\* ----------------------------------------------------------- alloc_buffer()
\* What the allocation can meet: the allocator (or parent_alloc_buffer)
\* fails, VideoMeta::add_full fails, or nothing does.
AllocOutcomes == {"ok", "alloc_err", "vmeta_err"}

\* The memory the pool's allocator yields is a DmaBufMemory: the GBM
\* allocator's and the DMA heap allocator's (dmabuf_allocator.alloc(fd, ..)).
IsDmaBufMemory(allocator) == allocator \in {"gbm", "dmaheap"}

\* buffer.find_memory(offset, Some(1)) on a buffer whose memories have the
\* sizes in mems: the index of the memory holding that byte and the bytes to
\* skip in it; index 0 when the buffer is too short (the expect panics).
RECURSIVE FindMemory(_, _, _)
FindMemory(mems, k, offset) ==
    IF k > Len(mems) THEN [idx |-> 0, skip |-> 0]
    ELSE IF offset < mems[k] THEN [idx |-> k, skip |-> offset]
    ELSE FindMemory(mems, k + 1, offset - mems[k])

\* dmabuf.add_plane(fd, plane, (mem.offset() + skip) as u32, stride as u32,
\* Modifier::Linear); mem.offset() of the one memory of the buffer is 0.
PlaneOf(vi, p) ==
    [offset |-> 0 + FindMemory(<<SizeOf(vi)>>, 1, OffsetOf(vi, p)).skip,
     stride |-> StrideOf(vi, p)]

\* Dmabuf::builder((width, height), format, ..), one add_plane per plane of
\* the video info, build().
BuildDmabuf(vi) ==
    [width |-> vi.width, height |-> vi.height,
     format |-> gst_video_format_to_drm_fourcc(vi.format),
     planes |-> [p \in 1..NPlanes(vi.format) |-> PlaneOf(vi, p)]]

\* buffer_mut.unset_flags(gst::BufferFlags::TAG_MEMORY) on a buffer whose
\* memory was just inserted (which sets the flag).
UnsetTagMemory(flag) == FALSE

\* The metas attached at line 135: SmithayBufferMeta::add(buffer_mut, dmabuf).
AttachedMetasNone(vi) == <<>>

AttachedMetas(vi) == <<BuildDmabuf(vi)>>

\* alloc_buffer() on pool state st, meeting outcome o (met: the failure it
\* actually ran into, "ok" when its allocation and metas went through). insert_memory (and the
\* parent's allocation) tag the buffer TAG_MEMORY; line 151 clears the flag.
AllocBufferResult(st, o) ==
    LET vi == st.video_info
        failed(dma, met) == [res |-> "Error", met |-> met, dma |-> dma,
                             metas |-> <<>>, tag |-> FALSE, vmeta |-> FALSE]
    IN  IF o = "alloc_err" THEN failed(FALSE, "alloc_err")
        ELSE IF ~IsDmaBufMemory(st.allocator) THEN failed(FALSE, "ok")
        ELSE IF gst_video_format_to_drm_fourcc(vi.format) = "None"
        THEN failed(TRUE, "ok")
        ELSE IF st.add_video_meta /\ o = "vmeta_err" THEN failed(TRUE, "vmeta_err")
        ELSE [res |-> "Ok", met |-> "ok", dma |-> TRUE,
              metas |-> AttachedMetas(vi),
              tag |-> UnsetTagMemory(TRUE), vmeta |-> st.add_video_meta]

\* state.video_info / state.allocator are unwrapped: the pool is configured.
AllocConfiguredBuffer ==
    /\ poolState.video_info.set
    /\ \E o \in AllocOutcomes :
          lastBuf' = AllocBufferResult(poolState, o)
    /\ UNCHANGED <<poolState, lastCfg, priorMax>>
    /\ UNCHANGED notConfigVars

NextConfig ==
    \/ SetConfig
    \/ AllocConfiguredBuffer

\* ========================================================================
\* Allocators (src/gst-plugin-wayland-display/src/allocators,
\* decide_allocation in src/.../waylandsrc/imp.rs)
\* ========================================================================

Sizes == 0..MaxSize

NoMem == [allocator |-> "none", size |-> 0, memSize |-> 0, seals |-> {},
          res |-> "none"]

InitAlloc ==
    /\ lastSel = [called |-> FALSE, node |-> FALSE, gpu |-> FALSE,
                  heap |-> FALSE, allocator |-> "none", res |-> "none"]
    /\ lastMem = NoMem

\* decide_allocation: let (allocator, params, align) = { (GbmMemoryAllocator
\* ::new(settings.render_node..dev_path(), &video_info).upcast(), ..) }.
\* Nothing is looked at to pick it: not whether a render node is configured,
\* not DmaHeapMemoryAllocator::is_available().
SelectedAllocator(node, gpu, heap) == "gbm"

\* GbmMemoryAllocator::constructed opens the configured device path, or
\* /dev/dri/renderD128: Card::open(..) unwraps the open.
ConstructResult(gpu) == IF gpu THEN "Ok" ELSE "Panic"

\* decide_allocation sets up its allocator on a host where: a render node is
\* configured (node), the device can be opened (gpu), a DMA heap exists (heap).
DecideAllocator ==
    /\ \E node \in BOOLEAN, gpu \in BOOLEAN, heap \in BOOLEAN :
          lastSel' = [called |-> TRUE, node |-> node, gpu |-> gpu, heap |-> heap,
                      allocator |-> SelectedAllocator(node, gpu, heap),
                      res |-> ConstructResult(gpu)]
    /\ UNCHANGED lastMem
    /\ UNCHANGED notAllocVars

\* -------------------------------------------------- GbmMemoryAllocator::alloc
\* if (fd_size as usize) < size { panic!("bo too small") }
BoTooSmallNever(fd_size, size) == FALSE

BoTooSmall(fd_size, size) == fd_size < size

\* alloc(size) when the buffer object made for the allocator's width, height
\* and fourcc has an fd of fd_size bytes: the memory wraps the whole fd.
GbmAllocResult(size, fd_size) ==
    IF BoTooSmall(fd_size, size)
    THEN [allocator |-> "gbm", size |-> size, memSize |-> 0, seals |-> {},
          res |-> "Panic"]
    ELSE [allocator |-> "gbm", size |-> size, memSize |-> fd_size, seals |-> {},
          res |-> "Ok"]

GbmAlloc ==
    /\ \E size \in Sizes, fd_size \in Sizes :
          lastMem' = GbmAllocResult(size, fd_size)
    /\ UNCHANGED lastSel
    /\ UNCHANGED notAllocVars

\* ---------------------------------------------- DmaHeapMemoryAllocator::alloc
\* self.heap.allocate(size).unwrap(); dmabuf_allocator.alloc(fd, size)
DmaHeapAllocResult(size, heapOk) ==
    IF heapOk
    THEN [allocator |-> "dmaheap", size |-> size, memSize |-> size, seals |-> {},
          res |-> "Ok"]
    ELSE [allocator |-> "dmaheap", size |-> size, memSize |-> 0, seals |-> {},
          res |-> "Panic"]

DmaHeapAlloc ==
    /\ \E size \in Sizes, heapOk \in BOOLEAN :
          lastMem' = DmaHeapAllocResult(size, heapOk)
    /\ UNCHANGED lastSel
    /\ UNCHANGED notAllocVars

\* ------------------------------------------------ MemfdMemoryAllocator::alloc
\* let _ = mem_fd.add_seals(&{SealShrink}); let _ = mem_fd.add_seal(SealSeal);
\* each seal is on the fd when its call succeeded; neither result is looked at.
SealsAdded(shrinkOk, sealOk) ==
    (IF shrinkOk THEN {"SealShrink"} ELSE {})
        \cup (IF sealOk THEN {"SealSeal"} ELSE {})

\* create(..).expect, set_len(size).expect, the two seals, FdAllocator::alloc.
MemfdAllocResult(size, createOk, lenOk, shrinkOk, sealOk, allocOk) ==
    IF ~createOk \/ ~lenOk
    THEN [allocator |-> "memfd", size |-> size, memSize |-> 0, seals |-> {},
          res |-> "Panic"]
    ELSE IF ~allocOk
    THEN [allocator |-> "memfd", size |-> size, memSize |-> 0,
          seals |-> SealsAdded(shrinkOk, sealOk), res |-> "Err"]
    ELSE [allocator |-> "memfd", size |-> size, memSize |-> size,
          seals |-> SealsAdded(shrinkOk, sealOk), res |-> "Ok"]

MemfdAlloc ==
    /\ \E size \in Sizes, createOk \in BOOLEAN, lenOk \in BOOLEAN,
          shrinkOk \in BOOLEAN, sealOk \in BOOLEAN, allocOk \in BOOLEAN :
          lastMem' = MemfdAllocResult(size, createOk, lenOk, shrinkOk, sealOk,
                                      allocOk)
    /\ UNCHANGED lastSel
    /\ UNCHANGED notAllocVars

NextAlloc ==
    \/ DecideAllocator
    \/ GbmAlloc
    \/ DmaHeapAlloc
    \/ MemfdAlloc

\* ========================================================================
\* Wire fields of the export protocol (src/comp/src/export_dmabuf.rs) and
\* their reading by the capture client (src/capture/src/main.rs)
\* ========================================================================

Word == 2 ^ WordBits
DWord == Word * Word
NanosPerSec == 1000000000

\* x as u32, x >> 32, x & 0xFFFFFFFF, (x as u64) << 32 on a u64 x
AsU32(x) == x % Word
ShiftRightWord(x) == x \div Word
LowWord(x) == x % Word
ShiftLeftWord(x) == (x * Word) % DWord

\* Instants: whole seconds and nanoseconds on the monotonic clock.
StartTimes == [sec : {0, 1}, nsec : {0, NanosPerSec - 1}]
PresentTimes == [sec : 0..(DWord - 1), nsec : {0, 1, NanosPerSec - 1}]

NotBefore(a, b) == a.sec > b.sec \/ (a.sec = b.sec /\ a.nsec >= b.nsec)

\* presentation_time.duration_since(state.start_time()), for a presentation
\* time not before the start; (duration.as_secs(), duration.subsec_nanos())
DurationSince(p, st) ==
    IF p.nsec >= st.nsec
    THEN [sec |-> p.sec - st.sec, nsec |-> p.nsec - st.nsec]
    ELSE [sec |-> p.sec - st.sec - 1, nsec |-> p.nsec + NanosPerSec - st.nsec]

\* frame.ready((tv_sec >> 32) as u32, (tv_sec & 0xFFFFFFFF) as u32, tv_nsec)
ReadyFieldsSwapped(d) ==
    [sec_hi |-> AsU32(LowWord(d.sec)),
     sec_lo |-> AsU32(ShiftRightWord(d.sec)),
     nsec |-> d.nsec]

ReadyFields(d) ==
    [sec_hi |-> AsU32(ShiftRightWord(d.sec)),
     sec_lo |-> AsU32(LowWord(d.sec)),
     nsec |-> d.nsec]

\* frame.frame(.., (modifier >> 32) as u32, (modifier & 0xFFFFFFFF) as u32, ..)
ModifierFields(m) ==
    [mod_high |-> AsU32(ShiftRightWord(m)), mod_low |-> AsU32(LowWord(m))]

\* capture client, Event::Frame:
\*   let modi = ((mod_high as u64) << 32) | (mod_low as u64);
RecombineUnshifted(mod_high, mod_low) == BitOr(mod_high, mod_low)

Recombine(mod_high, mod_low) == BitOr(ShiftLeftWord(mod_high), mod_low)

\* frame.object(i, handle, size as u32, ..): size is the u64 file.seek found.
ObjectSizeField(size) == AsU32(size)

\* The wire is looked at one event at a time: the variables of the events
\* that are not the last one sent hold these values.
NoReady ==
    [sent |-> FALSE, start |-> [sec |-> 0, nsec |-> 0],
     present |-> [sec |-> 0, nsec |-> 0],
     sec_hi |-> 0, sec_lo |-> 0, nsec |-> 0]
NoHdr ==
    [sent |-> FALSE, recv |-> FALSE, modifier |-> 0,
     mod_high |-> 0, mod_low |-> 0, modi |-> 0]
NoObj == [sent |-> FALSE, size |-> 0, field |-> 0]

InitWire ==
    /\ lastReady = NoReady
    /\ lastHdr = NoHdr
    /\ lastObj = NoObj

\* The ready event of a capture presented at p in a session started at st.
SendReady ==
    /\ \E st \in StartTimes, p \in PresentTimes :
          /\ NotBefore(p, st)
          /\ LET f == ReadyFields(DurationSince(p, st))
             IN  lastReady' = [sent |-> TRUE, start |-> st, present |-> p,
                               sec_hi |-> f.sec_hi, sec_lo |-> f.sec_lo,
                               nsec |-> f.nsec]
    /\ lastHdr' = NoHdr /\ lastObj' = NoObj
    /\ UNCHANGED notWireVars

\* The frame event of a dmabuf with modifier m.
SendFrameHeader ==
    /\ \E m \in 0..(DWord - 1) :
          LET f == ModifierFields(m)
          IN  lastHdr' = [sent |-> TRUE, recv |-> FALSE, modifier |-> m,
                          mod_high |-> f.mod_high, mod_low |-> f.mod_low,
                          modi |-> 0]
    /\ lastReady' = NoReady /\ lastObj' = NoObj
    /\ UNCHANGED notWireVars

\* The capture client handles the frame event.
ClientFrame ==
    /\ lastHdr.sent /\ ~lastHdr.recv
    /\ lastHdr' = [lastHdr EXCEPT !.recv = TRUE,
                      !.modi = Recombine(lastHdr.mod_high, lastHdr.mod_low)]
    /\ UNCHANGED <<lastReady, lastObj>>
    /\ UNCHANGED notWireVars

\* The object event of a plane whose fd is size bytes long.
SendObject ==
    /\ \E size \in 0..(DWord - 1) :
          lastObj' = [sent |-> TRUE, size |-> size, field |-> ObjectSizeField(size)]
    /\ lastReady' = NoReady /\ lastHdr' = NoHdr
    /\ UNCHANGED notWireVars

NextWire ==
    \/ SendReady
    \/ SendFrameHeader
    \/ ClientFrame
    \/ SendObject

\* ========================================================================
\* Format conversion (src/gst-plugin-wayland-display/src/utils.rs)
\* ========================================================================

\* gst_video::VideoFormat and smithay's Fourcc: the values the two matches
\* name, and some of the others.
VideoFormats ==
    {"Abgr", "Argb", "Bgra", "Bgrx", "Rgba", "Rgbx", "Xbgr", "Xrgb",
     "Nv12", "I420", "Rgb16", "Unknown"}
Fourccs ==
    {"Abgr8888", "Argb8888", "Bgra8888", "Bgrx8888", "Rgba8888", "Rgbx8888",
     "Xbgr8888", "Xrgb8888", "Nv12", "Yuyv", "Rgb565", "Abgr2101010"}

InitConv ==
    lastConv = [called |-> FALSE, format |-> "Unknown", fourcc |-> "Nv12",
                to |-> "None", from |-> "None",
                from_to |-> "None", to_from |-> "None"]

\* Both functions are applied, each to a value of its own and to the other's
\* result when there is one (None stays None).
Convert ==
    /\ \E f \in VideoFormats, c \in Fourccs :
          LET t == gst_video_format_to_drm_fourcc(f)
              r == gst_video_format_from_drm_fourcc(c)
          IN  lastConv' =
                [called |-> TRUE, format |-> f, fourcc |-> c, to |-> t, from |-> r,
                 from_to |-> IF t = "None" THEN "None"
                             ELSE gst_video_format_from_drm_fourcc(t),
                 to_from |-> IF r = "None" THEN "None"
                             ELSE gst_video_format_to_drm_fourcc(r)]
    /\ UNCHANGED notConvVars

NextConv == Convert

\* ========================================================================
\* Specifications
\* ========================================================================

Init == InitExport /\ InitPool /\ InitChan /\ InitSwap /\ InitConfig
        /\ InitAlloc /\ InitWire /\ InitConv

SpecExport == Init /\ [][NextExport]_vars

SpecPool == Init /\ [][NextPool]_vars

SpecChan == Init /\ [][NextChan]_vars

\* Scheduling: a compositor thread that can take a step of its own takes it,
\* and a caller blocked in buffer_rx.recv() or thread_handle.join() returns
\* once the call can. A buffer_tx.send(..) whose receiver is gone returns
\* (Err) like any step; one whose receiver exists blocks until the receiver
\* takes the frame, which is no matter of scheduling, and neither is a
\* failure of the render.
FrameSendFails(g) == ~frameRx[g] /\ CompSendFrame(g)

CompStep(g) ==
    \/ CompLoopTop(g)
    \/ CompDispatch(g)
    \/ CompCreateFrame(g)
    \/ FrameSendFails(g)
    \/ CompTerminate(g)

CallerWakes(t) == CreateRecv(t) \/ StopJoin(t)

CallerFair == \A t \in Threads : WF_vars(CallerWakes(t))

SpecChanSched ==
    SpecChan /\ CallerFair /\ \A g \in Gens : WF_vars(CompStep(g))

\* A compositor that keeps dispatching: in addition, every frame it sends is
\* taken by the receiver (or fails because the receiver is gone).
CompStepReceived(g) == CompStep(g) \/ CompSendFrame(g)

SpecChanFair ==
    SpecChan /\ CallerFair /\ \A g \in Gens : WF_vars(CompStepReceived(g))

\* The source and its callers, and a source that may be dropped while
\* started, under the scheduling of SpecChanSched.
NextChanDrop ==
    \/ NextChan
    \/ SourceDropped

SpecChanDrop ==
    /\ Init /\ [][NextChanDrop]_vars
    /\ CallerFair
    /\ \A g \in Gens : WF_vars(CompStep(g))

SpecSwap == Init /\ [][NextSwap]_vars

SpecConfig == Init /\ [][NextConfig]_vars

SpecAlloc == Init /\ [][NextAlloc]_vars

SpecWire == Init /\ [][NextWire]_vars

SpecConv == Init /\ [][NextConv]_vars

\* ========================================================================
\* Properties: export protocol engine (checked under SpecExport)
\* ========================================================================

\* The complete success sequence for n planes: one frame header announcing
\* n objects, then objects 0..n-1 in order, then one ready; nothing else.
IsSuccessSequence(evs, n) ==
    /\ Len(evs) = n + 2
    /\ evs[1].kind = "frame"
    /\ evs[1].num = n
    /\ \A k \in 1..n : evs[k + 1].kind = "object" /\ evs[k + 1].num = k - 1
    /\ evs[n + 2].kind = "ready"

IsSingleCancel(evs) == Len(evs) = 1 /\ evs[1].kind = "cancel"

AllSizesRead(r) == \A p \in 1..r.capture.n : r.io[p] = "ok"

Handled == {requests[k] : k \in 1..Len(requests)}

\* C1: the events of every request are either the complete success sequence
\* (header, as many objects as the header announces, ready) or one cancel.
C1_OneShapePerRequest ==
    \A r \in Handled :
        \/ Len(r.events) >= 1 /\ IsSuccessSequence(r.events, r.events[1].num)
        \/ IsSingleCancel(r.events)

\* C2 as stated: whenever capture_frame returned Ok the request's events are
\* exactly header, n_planes objects, ready, with no cancel.
C2_OkEmitsSuccessSequence ==
    \A r \in Handled : r.capture.ok => IsSuccessSequence(r.events, r.capture.n)

\* C2 as amended: when capture_frame returned Ok and the size read of every
\* plane succeeded, the request's events are exactly header, n_planes
\* objects, ready, with no cancel.
C2_OkAndSizesReadEmitsSuccessSequence ==
    \A r \in Handled :
        (r.capture.ok /\ AllSizesRead(r)) => IsSuccessSequence(r.events, r.capture.n)

C2_Witness ==
    \E r \in Handled :
        /\ r.capture.ok /\ r.capture.n >= 2 /\ AllSizesRead(r)
        /\ Len(r.events) = r.capture.n + 2

\* C3: when capture_frame returned Err(e) the request's events are exactly
\* one cancel whose reason is the one named like e.
C3_ErrEmitsMatchingCancel ==
    \A r \in Handled :
        ~r.capture.ok =>
            /\ Len(r.events) = 1
            /\ r.events[1].kind = "cancel"
            /\ r.events[1].reason = r.capture.err

C3_Witness ==
    \E r \in Handled :
        /\ ~r.capture.ok /\ r.capture.err = "Permanent"
        /\ Len(r.events) = 1 /\ r.events[1].reason = "Permanent"

\* C4: after a request has been handled every plane fd of the capture's
\* descriptor is still open.
C4_PlaneFdsStayOpen ==
    \A r \in Handled : \A p \in DOMAIN r.fdOpen : r.fdOpen[p]

\* C27: a Destroy request, on the manager or on a frame object, adds no
\* event and no capture_frame call to any request and changes nothing else.
C27_DestroyIsNoOp ==
    [][destroys' # destroys =>
          /\ requests' = requests
          /\ UNCHANGED notExportVars]_vars

C27_Witness ==
    /\ destroys.manager > 0 /\ destroys.frame > 0
    /\ \E r \in Handled : r.capture.ok /\ AllSizesRead(r)

\* C29: a request whose capture succeeded and one of whose size reads failed
\* ends with a cancel of reason Temporary, has no other cancel and no ready.
C29_FailedSizeReadCancelsTemporary ==
    \A r \in Handled :
        (r.capture.ok /\ ~AllSizesRead(r)) =>
            /\ r.events[Len(r.events)].kind = "cancel"
            /\ \A k \in 1..Len(r.events) :
                  /\ r.events[k].kind # "ready"
                  /\ r.events[k].kind = "cancel" =>
                        /\ k = Len(r.events)
                        /\ r.events[k].reason = "Temporary"

C29_Witness ==
    \E r \in Handled :
        /\ r.capture.ok /\ r.capture.n >= 2
        /\ r.io[1] = "ok" /\ r.io[2] = "rewind_err"
        /\ Len(r.events) = 3 /\ r.events[3].reason = "Temporary"

\* ========================================================================
\* Properties: buffer pool fd ownership (checked under SpecPool)
\* ========================================================================

\* The live owners of fd f: its memory, and every plane of its Dmabuf.
FdOwners(f) ==
    (IF memRef[f] > 0 THEN 1 ELSE 0) + (IF arcRef[f] > 0 THEN arcPlanes[f] ELSE 0)

\* C5: every fd the pool opened has exactly one owner while it is open, is
\* never closed twice, and is closed once its last owner is gone.
C5_OneOwnerOneClose ==
    \A f \in opened :
        /\ closes[f] <= 1
        /\ closes[f] = 0 => FdOwners(f) = 1
        /\ FdOwners(f) = 0 => closes[f] = 1

\* ========================================================================
\* Properties: render command channel (checked under SpecChan)
\* ========================================================================

\* C6: at most one Buffer command is outstanding: sent by a create() that
\* has not yet seen its ack or the failure of its wait.
C6_AtMostOneBufferOutstanding ==
    Cardinality({t \in Threads : tpc[t] = "create_wait"}) <= 1

C6_Witness ==
    \E t \in Threads :
        /\ tpc[t] = "create_wait" /\ ack[t] = "pending"
        /\ lastRet.op = "create" /\ lastRet.thread # t

\* C7: the ack of every Buffer command the compositor's handler has received
\* has been signalled.
C7_ReceivedBufferIsAcked ==
    \A t \in Threads : recvd[t] => ack[t] = "signalled"

\* C8: a create() that wakes up on a dropped ack returns a flow error, and
\* sends no command in doing so.
C8_DroppedAckIsFatal ==
    [][\A t \in Threads :
          (tpc[t] = "create_wait" /\ ack[t] = "dropped" /\ tpc'[t] = "idle")
              => /\ lastRet'.thread = t
                 /\ lastRet'.op = "create"
                 /\ lastRet'.val = "Error"
                 /\ chan' = chan]_vars

C8_Witness ==
    lastRet.op = "create" /\ lastRet.ack = "dropped" /\ lastRet.val = "Error"

\* C9: a call whose send of a Buffer or VideoInfo command failed returned
\* end-of-stream.
C9_FailedSendReportsEos ==
    (lastRet.op \in {"create", "decide_allocation"} /\ lastRet.sendFailed)
        => lastRet.val = "Eos"

\* C10: when a stop() of a started source has returned, the compositor
\* thread of that source has terminated and has been joined.
C10_StopReturnsAfterJoin ==
    (lastRet.op = "stop" /\ lastRet.gen # 0)
        => (cpc[lastRet.gen] = "dead" /\ joined[lastRet.gen])

\* C11: on every command channel, the first of the VideoInfo and Buffer
\* commands sent is a VideoInfo: no Buffer command is sent on a channel that
\* has not carried a VideoInfo command before it.
C11_VideoInfoBeforeFirstBuffer ==
    \A g \in Gens : firstCmd[g] # "Buffer"

C11_Witness ==
    \E g \in Gens :
        /\ firstCmd[g] = "VideoInfo"
        /\ \E k \in 1..Len(chan[g]) : chan[g][k].kind = "Buffer"

\* ========================================================================
\* Properties: swapchain (checked under SpecSwap)
\* ========================================================================

\* C12: with K = NumSlots slots, once K+1 frames have been acquired and
\* rendered one after the other, frame K+1 got the slot (and so the cached
\* Dmabuf) of frame 1, with age K.
C12_SlotComesBackWithAgeK ==
    (Len(frames) >= NumSlots + 1 /\ frames[NumSlots + 1].res = "Ok")
        => /\ frames[NumSlots + 1].slot = frames[1].slot
           /\ frames[NumSlots + 1].age = NumSlots

\* C14: a create_frame() that succeeds leaves the slot it rendered into with
\* age 1, and one that fails leaves the age of every slot as it was.
C14_RenderedSlotHasAgeOne ==
    [][Len(frames') > Len(frames) =>
          LET f == frames'[Len(frames')]
          IN  IF f.res = "Ok"
              THEN swSlots'[f.slot].age = 1
              ELSE \A s \in SlotIds : swSlots'[s].age = swSlots[s].age]_vars

\* C16: after a frame whose buffer allocation failed in acquire(), the
\* compositor thread is still running (and can acquire again).
C16_AllocFailureKeepsThreadAlive ==
    (Len(frames) > 0 /\ frames[Len(frames)].outcome = "alloc_err") => compAlive

\* C36: no create_frame() finds every slot handed out, no more than one slot
\* is handed out while a frame is made, and none between frames.
C36_AtMostOneSlotHeld ==
    /\ SlotsHeld(swSlots) = 0
    /\ \A k \in 1..Len(frames) :
          frames[k].outcome # "no_free" /\ frames[k].inUse <= 1

C36_Witness ==
    /\ Len(frames) >= NumSlots + 1
    /\ \A k \in 1..Len(frames) : frames[k].res = "Ok" /\ frames[k].inUse = 1

\* ========================================================================
\* Properties: pool configuration and buffer content (checked under
\* SpecConfig)
\* ========================================================================

\* C17 (as stated): after a successful set_config whose config has the
\* alignment option and a video alignment, the stride alignment of every
\* plane is at least the largest alignment requested.
C17_AlignmentRequestRaisesStrides ==
    (lastCfg.called /\ lastCfg.ok /\ lastCfg.request)
        => \A p \in 1..NPlanes(poolState.video_info.format) :
               poolState.video_info.strideAlign[p] >= lastCfg.reqMax

\* C17 (amended): after a successful set_config whose config has the
\* alignment option, the video-meta option and a video alignment, the stride
\* alignment of every plane is at least the largest alignment requested, and
\* every stride is a multiple of it.
C17_AppliedAlignmentRaisesStrides ==
    (lastCfg.called /\ lastCfg.ok /\ lastCfg.applied)
        => \A p \in 1..NPlanes(poolState.video_info.format) :
               /\ poolState.video_info.strideAlign[p] >= lastCfg.reqMax
               /\ StrideOf(poolState.video_info, p) % (lastCfg.reqMax + 1) = 0

C17_Witness ==
    /\ lastCfg.called /\ lastCfg.ok /\ lastCfg.applied
    /\ lastCfg.reqMax = 7
    /\ poolState.video_info.format = "Nv12"
    /\ StrideOf(poolState.video_info, 2) = 8

\* C18 (as stated): a successful set_config that asks for less alignment
\* than an earlier one set leaves the effective stride alignment at least at
\* the largest value set before.
C18_AlignmentNeverDecreases ==
    (lastCfg.called /\ lastCfg.ok /\ lastCfg.applied
        /\ lastCfg.reqMax < priorMax)
        => EffectiveAlign(poolState.video_info) >= priorMax

\* C18 (amended): a successful set_config that applies an alignment leaves
\* the allocation params' alignment and the effective stride alignment at
\* least at the largest alignment that same call asked for, whatever earlier
\* calls had set.
C18_AlignmentAtLeastThisCallsMax ==
    (lastCfg.called /\ lastCfg.ok /\ lastCfg.applied)
        => /\ poolState.align >= lastCfg.reqMax
           /\ EffectiveAlign(poolState.video_info) >= lastCfg.reqMax

C18_Witness ==
    /\ lastCfg.called /\ lastCfg.ok /\ lastCfg.applied
    /\ lastCfg.reqMax = 3
    /\ priorMax = 7
    /\ poolState.align = 3

\* C19: the pool's stored state changes only in a set_config that succeeds:
\* a failed set_config leaves video info, allocator, allocation params and
\* the add-video-meta flag as they were.
C19_FailedConfigKeepsState ==
    [][poolState' # poolState => lastCfg'.ok]_vars

\* C20: a buffer alloc_buffer returned with DMA-BUF memory has exactly one
\* Dmabuf attached, of the negotiated width, height and format, with one
\* plane per plane of the format at the negotiated offset and stride, and
\* its TAG_MEMORY flag is clear.
C20_BufferCarriesNegotiatedDescriptor ==
    (lastBuf.res = "Ok" /\ lastBuf.dma)
        => /\ Len(lastBuf.metas) = 1
           /\ ~lastBuf.tag
           /\ LET d == lastBuf.metas[1]
                  vi == poolState.video_info
              IN  /\ d.width = vi.width
                  /\ d.height = vi.height
                  /\ gst_video_format_from_drm_fourcc(d.format) = vi.format
                  /\ DOMAIN d.planes = 1..NPlanes(vi.format)
                  /\ NPlanes(vi.format) >= 1
                  /\ \A p \in DOMAIN d.planes :
                        /\ d.planes[p].offset = OffsetOf(vi, p)
                        /\ d.planes[p].stride = StrideOf(vi, p)

C20_Witness ==
    /\ lastBuf.res = "Ok" /\ lastBuf.dma
    /\ Len(lastBuf.metas) = 1
    /\ lastBuf.metas[1].planes[1].stride = 16
    /\ poolState.allocator = "dmaheap"

\* C21: an alloc_buffer whose allocator yields memory that is not DMA-BUF
\* backed, and whose allocation itself went through, returns a buffer (with
\* no Dmabuf attached) and not an error.
C21_NonDmaMemoryFallsBack ==
    (lastBuf.res # "none" /\ lastBuf.met = "ok" /\ ~lastBuf.dma
        /\ ~IsDmaBufMemory(poolState.allocator))
        => (lastBuf.res = "Ok" /\ lastBuf.metas = <<>>)

\* ========================================================================
\* Properties: allocators (checked under SpecAlloc)
\* ========================================================================

\* C22: the allocator decide_allocation sets up is the first available in
\* the order GPU device, kernel heap, sealed memory: the GPU-device allocator
\* when a render node is configured, the kernel-heap allocator when none is
\* and a DMA heap exists, the sealed-memory allocator otherwise.
C22_AllocatorByAvailability ==
    lastSel.called =>
        lastSel.allocator =
            (IF lastSel.node THEN "gbm"
             ELSE IF lastSel.heap THEN "dmaheap"
             ELSE "memfd")

\* C23: a memory the sealed-memory allocator returned has the shrink seal
\* and the seal-seal.
C23_MemfdMemoryIsSealed ==
    (lastMem.allocator = "memfd" /\ lastMem.res = "Ok")
        => {"SealShrink", "SealSeal"} \subseteq lastMem.seals

\* C24: a memory the GPU-device allocator returned is at least as large as
\* the size asked for.
C24_GbmMemoryLargeEnough ==
    (lastMem.allocator = "gbm" /\ lastMem.res = "Ok")
        => lastMem.memSize >= lastMem.size

C24_Witness ==
    /\ lastMem.allocator = "gbm" /\ lastMem.res = "Ok"
    /\ lastMem.size > 0
    /\ lastMem.memSize > lastMem.size

\* ========================================================================
\* Properties: wire fields (checked under SpecWire)
\* ========================================================================

\* C25: the ready event's seconds (high word times 2^w plus low word) and
\* nanoseconds, added to the session start time, give the presentation time,
\* and the nanoseconds are below 10^9.
C25_ReadyEncodesElapsedTime ==
    lastReady.sent =>
        LET secs == lastReady.sec_hi * Word + lastReady.sec_lo
            sum == lastReady.start.nsec + lastReady.nsec
        IN  /\ lastReady.nsec < NanosPerSec
            /\ sum % NanosPerSec = lastReady.present.nsec
            /\ lastReady.start.sec + secs + (sum \div NanosPerSec)
                   = lastReady.present.sec

C25_Witness ==
    /\ lastReady.sent
    /\ lastReady.sec_hi > 0 /\ lastReady.sec_lo > 0
    /\ lastReady.start.nsec > lastReady.present.nsec
    /\ lastReady.nsec > 0

\* C26: the frame event carries the high and low word of the modifier, and
\* the modifier the capture client puts together from them is the one sent.
C26_ModifierRoundTrips ==
    /\ lastHdr.sent =>
          /\ lastHdr.mod_high * Word + lastHdr.mod_low = lastHdr.modifier
          /\ lastHdr.mod_low < Word
    /\ lastHdr.recv => lastHdr.modi = lastHdr.modifier

C26_Witness ==
    /\ lastHdr.recv
    /\ lastHdr.mod_high > 0 /\ lastHdr.mod_low > 0
    /\ lastHdr.modifier = DWord - 1

\* C30: the size field of an object event is the byte size found for the
\* plane's fd, whatever that size.
C30_ObjectSizeIsFdSize ==
    lastObj.sent => lastObj.field = lastObj.size

\* C28: the commands sent to a compositor and not yet received never exceed
\* a fixed number; the number taken is that of the VideoInfo commands the
\* producer sends without the compositor receiving any.
C28_ChannelBounded ==
    \A g \in DOMAIN chan : Len(chan[g]) <= MaxVideoInfo

C32_NoFrameAfterQuitObserved ==
    [][\A g \in Gens :
          should_quit[g] =>
              /\ ~(cpc[g] = "frame" /\ cpc'[g] = "send")
              /\ ~(cpc[g] = "send" /\ cpc'[g] = "top")]_vars

\* C32 (as amended): once should_quit is set, the thread starts no further
\* loop iteration: at the top of the loop it leaves, without a dispatch or a
\* frame after that.
C32_NoIterationAfterQuitObserved ==
    [][\A g \in Gens :
          (should_quit[g] /\ cpc[g] = "top") => cpc'[g] \in {"top", "exiting"}]_vars

C32_Witness ==
    \E g \in Gens : should_quit[g] /\ cpc[g] = "exiting" /\ stopping = g

\* C33: every create() that waits for its ack and every stop() that waits
\* for the compositor thread returns, whatever the interleaving.
C33_CreateAndStopReturn ==
    \A t \in Threads : (tpc[t] # "idle") ~> (tpc[t] = "idle")

\* C34: a source has at most one compositor thread in its loop and at most
\* one command sender; a start() of a started source and a stop() of a
\* source that is not started change neither the State nor any thread or
\* channel.
C34_OneThreadOneChannel ==
    /\ [](/\ Cardinality({g \in Gens : txAlive[g]}) <= 1
          /\ Cardinality({g \in Gens :
                              cpc[g] \in {"top", "dispatch", "frame", "send"}}) <= 1)
    /\ [][\A t \in Threads :
            (/\ lastRet' # lastRet
             /\ lastRet'.thread = t
             /\ tpc[t] = "idle"
             /\ \/ lastRet'.op = "start" /\ srcState # 0
                \/ lastRet'.op = "stop" /\ srcState = 0)
                => UNCHANGED <<srcState, started, txAlive, rxAlive, cpc, chan,
                               should_quit, joined, frameRx, stopping>>]_vars

C34_Witness ==
    /\ lastRet.op = "start" /\ lastRet.gen = srcState
    /\ firstCmd[srcState] # "none"

\* C35: a create() on a source whose State stop() has taken returns
\* end-of-stream and sends nothing, and no command is added to a channel
\* whose sender stop() has taken.
C35_NothingSentAfterStop ==
    [][/\ (srcState = 0 /\ lastRet' # lastRet /\ lastRet'.op = "create")
            => (lastRet'.val = "Eos" /\ chan' = chan)
       /\ \A g \in Gens :
            (cpc[g] # "none" /\ ~txAlive[g]) => Len(chan'[g]) <= Len(chan[g])]_vars

C35_Witness ==
    /\ lastRet.op = "create" /\ lastRet.val = "Eos" /\ lastRet.gen = 0
    /\ \E g \in Gens : joined[g]

\* C38: whatever the pool's state, a set_config whose config lacks the
\* video-meta option, the video-alignment option or a video alignment stores
\* (when it stores a video info at all) the unaligned video info of the caps
\* and leaves the config's allocator, allocation params alignment and video
\* alignment as they were.
C38_AlignmentOnlyWhenRequested ==
    \A c \in BrokenConfigs \cup FullConfigs :
        ~(c.meta /\ c.alignOpt /\ c.hasValign) =>
            LET r == SetConfigResult(poolState, c)
            IN  /\ r.outAlloc = c.alloc
                /\ r.outAlign = c.align
                /\ r.outValign = c.valign
                /\ \/ r.state.video_info = poolState.video_info
                   \/ r.state.video_info = VideoInfoFromCaps(c.caps)
                /\ (c.params /\ c.capsKind = "video" /\ c.alloc \in Allocators)
                      => r.state.video_info = VideoInfoFromCaps(c.caps)

C38_Witness ==
    /\ lastCfg.called /\ lastCfg.ok /\ lastCfg.request /\ ~lastCfg.applied
    /\ lastCfg.reqMax > 0
    /\ poolState.video_info.strideAlign = NoValign

\* C39: on the eight formats each function names, the other function gives
\* back the value converted; every other value converts to None.
C39_FourccConversionsInverse ==
    lastConv.called =>
        /\ lastConv.to # "None" => lastConv.from_to = lastConv.format
        /\ lastConv.from # "None" => lastConv.to_from = lastConv.fourcc
        /\ (lastConv.to # "None") <=>
              lastConv.format \in {"Abgr", "Argb", "Bgra", "Bgrx",
                                   "Rgba", "Rgbx", "Xbgr", "Xrgb"}
        /\ (lastConv.from # "None") <=>
              lastConv.fourcc \in {"Abgr8888", "Argb8888", "Bgra8888", "Bgrx8888",
                                   "Rgba8888", "Rgbx8888", "Xbgr8888", "Xrgb8888"}

C39_Witness ==
    /\ lastConv.called
    /\ lastConv.format = "Abgr" /\ lastConv.to = "Rgba8888"
    /\ lastConv.from_to = "Abgr"
    /\ lastConv.fourcc = "Xrgb8888" /\ lastConv.to_from = "Xrgb8888"

\* C37: a compositor thread whose command sender has been dropped with no
\* Quit sent (no stop() is waiting for it) terminates.
C37_ClosedChannelEndsThread ==
    \A g \in Gens :
        (cpc[g] # "none" /\ ~txAlive[g] /\ stopping # g) ~> (cpc[g] = "dead")

====
